---- MODULE Spec2Model ----
(***************************************************************************)
(* Model of the ecomsy dashboard's store-scoped resources: the sizes API   *)
(* route (POST and GET /api/{storeId}/sizes), the Prisma schema it writes  *)
(* to (relationMode = "prisma": no foreign key is enforced by the          *)
(* database), the size form's declarative validation schema, and the size  *)
(* form's submit and delete handlers as they run in the browser.           *)
(*                                                                         *)
(* Strings are sequences of one-character strings, so that length, the     *)
(* regular expressions and trim() are computed and not assumed.            *)
(***************************************************************************)
EXTENDS Integers, Sequences, FiniteSets, TLC

VARIABLES
    stores,          \* Store rows: [id, userId]
    usedStoreIds,    \* store identifiers already handed out (uuid: never reused)
    billboards,      \* Billboard rows: [id, storeId]
    categories,      \* Category rows: [id, storeId, billboardId]
    sizes,           \* Size rows: [id, storeId, name, value, createdAt, updatedAt]
    nextSizeId,      \* next fresh Size identifier (uuid modelled as a counter)
    nextBillboardId, \* next fresh Billboard identifier
    nextCategoryId,  \* next fresh Category identifier
    now,             \* the database clock read by now() / @updatedAt: one tick per insert
    inflight,        \* POST requests suspended between the ownership query and the create
    products,        \* Product rows: [id, storeId, sizeId]
    nextProductId,   \* next fresh Product identifier
    refused,         \* history: identifiers of the Size rows whose delete was refused
    form,            \* the browser: the route shown, the mounted SizeForm, its requests in flight
    writeLog,        \* history: per created Size, who wrote it and whether the store was theirs then
    last             \* history: the request handled by the latest step and its response

vars == <<stores, usedStoreIds, billboards, categories, sizes, nextSizeId,
          nextBillboardId, nextCategoryId, now, inflight, products, nextProductId,
          refused, form, writeLog, last>>

(***************************************************************************)
(* Bounds of the model.                                                    *)
(***************************************************************************)
MaxSizes == 2
MaxInflight == 2
MaxBillboards == 2
MaxCategories == 2
MaxProducts == 2
MaxForms == 2

(***************************************************************************)
(* Input universes.                                                        *)
(***************************************************************************)
Users == {"u1", "u2"}
\* auth() yields userId = null for a signed-out caller
NoUser == "null"
Callers == Users \cup {NoUser}
StoreIds == {"s1", "s2"}
\* params.storeId may be the empty string
StoreParams == StoreIds \cup {""}

(***************************************************************************)
(* The form's validation schema (zod).                                     *)
(***************************************************************************)
NameMin == 3
NameMax == 30
ValueMin == 1
ValueMax == 5

\* the character class [a-zA-Z0-9áéíóúâêîôûãõñç ] of both regular expressions;
\* the accented letters are written by their code points
RegexAlphabet ==
    {"a","b","c","d","e","f","g","h","i","j","k","l","m",
     "n","o","p","q","r","s","t","u","v","w","x","y","z",
     "A","B","C","D","E","F","G","H","I","J","K","L","M",
     "N","O","P","Q","R","S","T","U","V","W","X","Y","Z",
     "0","1","2","3","4","5","6","7","8","9",
     "U+00E1","U+00E9","U+00ED","U+00F3","U+00FA",
     "U+00E2","U+00EA","U+00EE","U+00F4","U+00FB",
     "U+00E3","U+00F5","U+00F1","U+00E7"," "}

\* /^[...]+$/ : one or more characters, all of the class
MatchesRegex(s) == Len(s) >= 1 /\ \A i \in 1..Len(s) : s[i] \in RegexAlphabet

\* the characters String.prototype.trim removes (those the inputs use)
WhiteSpace == {" ", "\t", "\n"}

RECURSIVE TrimStart(_)
TrimStart(s) == IF s # <<>> /\ Head(s) \in WhiteSpace THEN TrimStart(Tail(s)) ELSE s

RECURSIVE TrimEnd(_)
TrimEnd(s) ==
    IF s # <<>> /\ s[Len(s)] \in WhiteSpace THEN TrimEnd(SubSeq(s, 1, Len(s) - 1)) ELSE s

Trim(s) == TrimEnd(TrimStart(s))

\* formSchema.name: string().min(3).max(30).regex(...).refine(trim)
NameSchema(s) ==
    /\ Len(s) >= NameMin
    /\ Len(s) <= NameMax
    /\ MatchesRegex(s)
    /\ Trim(s) = s

\* formSchema.value: string().min(1).max(5).regex(...).refine(trim)
ValueSchema(s) ==
    /\ Len(s) >= ValueMin
    /\ Len(s) <= ValueMax
    /\ MatchesRegex(s)
    /\ Trim(s) = s

(***************************************************************************)
(* JSON values of a request body.                                          *)
(***************************************************************************)
Absent == [t |-> "absent", s |-> <<>>, n |-> 0]
JStr(s) == [t |-> "str", s |-> s, n |-> 0]
JNum(n) == [t |-> "num", s |-> <<>>, n |-> n]

\* a presence test that lets the empty string and 0 through
TruthyDefinedOnly(v) == v.t # "absent"

\* JavaScript truthiness, as used by `if (!name)`
Truthy(v) ==
    CASE v.t = "absent" -> FALSE
      [] v.t = "str" -> v.s # <<>>
      [] v.t = "num" -> v.n # 0

Unparsable == [kind |-> "unparsable", name |-> Absent, value |-> Absent]
JsonNull == [kind |-> "null", name |-> Absent, value |-> Absent]
Obj(n, v) == [kind |-> "object", name |-> n, value |-> v]
NoBody == [kind |-> "none", name |-> Absent, value |-> Absent]

Rep(c, n) == [i \in 1..n |-> c]

ValidBody == Obj(JStr(<<"a","b","c">>), JStr(<<"S">>))
\* name shorter than 3, value longer than 5
ShortLongBody == Obj(JStr(<<"a","b">>), JStr(<<"a","b","c","d","e","f">>))
\* name longer than 30, with a character outside the class and a leading blank
BadNameBody == Obj(JStr(<<" ", "#">> \o Rep("a", NameMax)), JStr(<<"S">>))

MissingFieldBodies ==
    { Obj(Absent, Absent),
      Obj(JStr(<<>>), JStr(<<"S">>)),
      Obj(JNum(0), JStr(<<"S">>)),
      Obj(JStr(<<"a","b","c">>), Absent),
      Obj(JStr(<<"a","b","c">>), JStr(<<>>)) }

\* a truthy name that is not a string
NumberNameBody == Obj(JNum(7), JStr(<<"S">>))

Bodies ==
    {Unparsable, JsonNull, ValidBody, ShortLongBody, BadNameBody, NumberNameBody}
    \cup MissingFieldBodies

\* a fault is an unexpected failure of a collaborator: auth() throwing, the
\* ownership query throwing, the insert throwing
Requests ==
    [caller : Callers, storeId : StoreParams, body : Bodies, fault : {"none"}]
    \cup [caller : Callers, storeId : StoreParams,
          body : {ValidBody, Obj(Absent, Absent)}, fault : {"auth", "find", "create"}]

GetRequests == [caller : Callers, storeId : StoreParams, body : {NoBody},
                fault : {"none", "find"}]

\* the requests of the interleaving specification
RaceRequests == [caller : Users, storeId : StoreIds, body : {ValidBody}, fault : {"none"}]

(***************************************************************************)
(* Handler outcomes.                                                       *)
(***************************************************************************)
Respond(status, text) == [kind |-> "respond", status |-> status, text |-> text, data |-> {}]
Json(rows) == [kind |-> "respond", status |-> 200, text |-> "", data |-> rows]
Throw == [kind |-> "throw", status |-> 0, text |-> "", data |-> {}]
Proceed == [kind |-> "proceed", status |-> 0, text |-> "", data |-> {}]

\* a handler without its try/catch: the exception leaves the handler
TryCatchAbsent(o) == o

\* catch (error) { ...; return new NextResponse("Internal error", { status: 500 }) }
TryCatch(o) == IF o.kind = "throw" THEN Respond(500, "Internal error") ELSE o

(***************************************************************************)
(* Persistence gateway.                                                    *)
(***************************************************************************)
\* an ownership query that forgets the userId condition
StoreFindById(S, id, userId) == {st \in S : st.id = id}

\* prismadb.store.findFirst({ where: { id, userId } })
StoreFindFirst(S, id, userId) == {st \in S : st.id = id /\ st.userId = userId}

\* a list query that forgets the storeId condition
SizeFindAll(Z, storeId) == Z

\* prismadb.size.findMany({ where: { storeId } })
SizeFindMany(Z, storeId) == {z \in Z : z.storeId = storeId}

\* an insert that writes the two text columns the wrong way round
SizeRowSwapped(id, storeId, name, value, t) ==
    [id |-> id, storeId |-> storeId, name |-> value, value |-> name,
     createdAt |-> t, updatedAt |-> t]

\* model Size: id @default(uuid()), createdAt @default(now()), updatedAt @updatedAt
SizeRow(id, storeId, name, value, t) ==
    [id |-> id, storeId |-> storeId, name |-> name, value |-> value,
     createdAt |-> t, updatedAt |-> t]

\* a create under a unique rule on (storeId, name, value): a row with the same
\* fields is returned and nothing is inserted
SizeCreateUnique(Z, id, storeId, name, value, t, fault) ==
    IF fault = "create" \/ name.t # "str" \/ value.t # "str"
    THEN [out |-> Throw, sizes |-> Z]
    ELSE LET row == SizeRow(id, storeId, name.s, value.s, t)
             same == {z \in Z : z.storeId = storeId /\ z.name = name.s /\ z.value = value.s}
         IN IF same # {} THEN [out |-> Json(same), sizes |-> Z]
            ELSE [out |-> Json({row}), sizes |-> Z \cup {row}]

\* prismadb.size.create({ data: { name, value, storeId } }): name and value are
\* String columns, anything else is rejected by the client with an exception;
\* no foreign key ties storeId to a Store row (relationMode = "prisma")
SizeCreate(Z, id, storeId, name, value, t, fault) ==
    IF fault = "create" \/ name.t # "str" \/ value.t # "str"
    THEN [out |-> Throw, sizes |-> Z]
    ELSE LET row == SizeRow(id, storeId, name.s, value.s, t)
         IN [out |-> Json({row}), sizes |-> Z \cup {row}]

(***************************************************************************)
(* POST /api/{storeId}/sizes                                               *)
(***************************************************************************)
\* a guard that tells a missing store (404) from a store of another user (403)
PostGuardLeaky(r, S) ==
    IF r.fault = "auth" THEN Throw
    ELSE IF r.body.kind = "unparsable" THEN Throw
    ELSE IF r.body.kind = "null" THEN Throw
    ELSE IF r.caller = NoUser THEN Respond(401, "Unauthenticated")
    ELSE IF ~Truthy(r.body.name) THEN Respond(400, "name is required!")
    ELSE IF ~Truthy(r.body.value) THEN Respond(400, "value is required!")
    ELSE IF r.storeId = "" THEN Respond(400, "storeId is required!")
    ELSE IF r.fault = "find" THEN Throw
    ELSE IF ~\E st \in S : st.id = r.storeId THEN Respond(404, "Store not found")
    ELSE IF StoreFindFirst(S, r.storeId, r.caller) = {} THEN Respond(403, "Unauthorized")
    ELSE Proceed

\* a guard that queries the ownership before it looks at the fields
PostGuardOwnershipFirst(r, S) ==
    IF r.fault = "auth" THEN Throw
    ELSE IF r.body.kind = "unparsable" THEN Throw
    ELSE IF r.body.kind = "null" THEN Throw
    ELSE IF r.caller = NoUser THEN Respond(401, "Unauthenticated")
    ELSE IF r.storeId = "" THEN Respond(400, "storeId is required!")
    ELSE IF r.fault = "find" THEN Throw
    ELSE IF StoreFindFirst(S, r.storeId, r.caller) = {} THEN Respond(403, "Unauthorized")
    ELSE IF ~Truthy(r.body.name) THEN Respond(400, "name is required!")
    ELSE IF ~Truthy(r.body.value) THEN Respond(400, "value is required!")
    ELSE Proceed

\* the handler up to and including the ownership query
PostGuard(r, S) ==
    IF r.fault = "auth" THEN Throw
    ELSE IF r.body.kind = "unparsable" THEN Throw
    ELSE IF r.body.kind = "null" THEN Throw
    ELSE IF r.caller = NoUser THEN Respond(401, "Unauthenticated")
    ELSE IF ~Truthy(r.body.name) THEN Respond(400, "name is required!")
    ELSE IF ~Truthy(r.body.value) THEN Respond(400, "value is required!")
    ELSE IF r.storeId = "" THEN Respond(400, "storeId is required!")
    ELSE IF r.fault = "find" THEN Throw
    ELSE IF StoreFindFirst(S, r.storeId, r.caller) = {} THEN Respond(403, "Unauthorized")
    ELSE Proceed

\* the rest of the handler: the insert and the JSON response
PostCreate(r, Z, id, t) ==
    SizeCreate(Z, id, r.storeId, r.body.name, r.body.value, t, r.fault)

\* the whole handler on a database snapshot
PostHandler(r, S, Z, id, t) ==
    LET g == PostGuard(r, S)
        c == IF g.kind = "proceed" THEN PostCreate(r, Z, id, t)
             ELSE [out |-> g, sizes |-> Z]
    IN [out |-> TryCatch(c.out), sizes |-> c.sizes]

(***************************************************************************)
(* GET /api/{storeId}/sizes                                                *)
(***************************************************************************)
GetHandler(r, Z) ==
    TryCatch(IF r.storeId = "" THEN Respond(400, "storeId is required!")
             ELSE IF r.fault = "find" THEN Throw
             ELSE Json(SizeFindMany(Z, r.storeId)))

(***************************************************************************)
(* The size form (SizeForm) and the list it is opened from (SizesClient).  *)
(***************************************************************************)
\* params.sizeId of the form's route: "new", or the identifier of a Size
RouteSizeIds == {"new", "z1"}

\* what the user types into the form
FormInputs ==
    {[name |-> Rep("a", NameMin), value |-> Rep("S", ValueMin)],
     [name |-> Rep("a", NameMin - 1), value |-> Rep("S", ValueMin)],
     [name |-> Rep("a", NameMin), value |-> Rep("S", ValueMax + 1)]}

NoData == [name |-> <<>>, value |-> <<>>]

\* the status the request settles with; NoResponse: the request got no response
NoResponse == "none"
Settlements == {"200", "403", "500", NoResponse}

\* axios resolves the promise for a 2xx status and rejects it otherwise
Resolved(status) == status = "200"

NoRequest ==
    [method |-> "none", url |-> <<>>, data |-> NoData, inst |-> 0, back |-> <<>>]

\* the latest step of the browser
Event(kind, req, status, f) ==
    [kind |-> kind, req |-> req, status |-> status,
     routeBefore |-> f.route, instBefore |-> f.inst]

\* the list of the store's sizes is shown; no form is mounted
FormInit ==
    [route |-> <<"s1", "sizes">>, inst |-> 0, initialData |-> FALSE,
     loading |-> FALSE, openDelete |-> FALSE, opened |-> 0, pending |-> {},
     toast |-> "", event |-> [kind |-> "none", req |-> NoRequest, status |-> NoResponse,
                              routeBefore |-> <<>>, instBefore |-> 0]]

\* router.push to a list route: the mounted form, if any, is unmounted
RouterPush(f, route) ==
    [f EXCEPT !.route = route, !.inst = 0, !.initialData = FALSE,
              !.loading = FALSE, !.openDelete = FALSE]

\* the form's route is entered: a new SizeForm with useState(false) twice
Mount(f, zid, data) ==
    [f EXCEPT !.route = <<f.route[1], "sizes", zid>>, !.inst = f.opened + 1,
              !.opened = f.opened + 1, !.initialData = data,
              !.loading = FALSE, !.openDelete = FALSE]

\* a state setter called by the closure of form instance inst: it acts on
\* that instance only, and not at all once the instance is unmounted
SetLoading(f, inst, b) == IF f.inst = inst THEN [f EXCEPT !.loading = b] ELSE f
SetOpenDelete(f, inst, b) == IF f.inst = inst THEN [f EXCEPT !.openDelete = b] ELSE f

toastMessageSuccess(edit) ==
    IF edit THEN "Tamanho atualizado com sucesso." ELSE "Tamanho criado com sucesso!"
toastMessageError(edit) ==
    IF edit THEN "Algo correu mal ao atualizar o tamanho!"
    ELSE "Algo correu mal ao criar o tamanho!"
toastDeleteSuccess == "Tamanho apagado com sucesso."
toastDeleteError ==
    "Certifique-se que remove todos os produtos que usam este tamanho, antes de o apagar."

\* onSubmit up to its await: the request that is issued
onSubmitRequest(f, data) ==
    [method |-> IF f.initialData THEN "PATCH" ELSE "POST",
     url |-> IF f.initialData THEN <<"api", f.route[1], "sizes", f.route[3]>>
             ELSE <<"api", f.route[1], "sizes">>,
     data |-> data, inst |-> f.inst, back |-> <<f.route[1], "sizes">>]

\* onDelete up to its await
onDeleteRequest(f) ==
    [method |-> "DELETE", url |-> <<"api", f.route[1], "sizes", f.route[3]>>,
     data |-> NoData, inst |-> f.inst, back |-> <<f.route[1], "sizes">>]

\* an onSubmit that navigates whether or not the request resolved
onSubmitSettledPushAlways(f, req, status) ==
    LET edit == req.method = "PATCH"
        t == IF Resolved(status) THEN toastMessageSuccess(edit) ELSE toastMessageError(edit)
    IN SetLoading([RouterPush(f, req.back) EXCEPT !.toast = t], req.inst, FALSE)

\* onSubmit from its await on: try, catch, finally
onSubmitSettled(f, req, status) ==
    LET edit == req.method = "PATCH"
        body == IF Resolved(status)
                THEN [RouterPush(f, req.back) EXCEPT !.toast = toastMessageSuccess(edit)]
                ELSE [f EXCEPT !.toast = toastMessageError(edit)]
    IN SetLoading(body, req.inst, FALSE)

\* an onDelete without its finally block: the setters run on success only
onDeleteSettledNoFinally(f, req, status) ==
    IF Resolved(status)
    THEN SetOpenDelete(SetLoading([RouterPush(f, req.back) EXCEPT !.toast = toastDeleteSuccess],
                                  req.inst, FALSE), req.inst, FALSE)
    ELSE [f EXCEPT !.toast = toastDeleteError]

\* onDelete from its await on: try, catch, finally
onDeleteSettled(f, req, status) ==
    LET body == IF Resolved(status)
                THEN [RouterPush(f, req.back) EXCEPT !.toast = toastDeleteSuccess]
                ELSE [f EXCEPT !.toast = toastDeleteError]
    IN SetOpenDelete(SetLoading(body, req.inst, FALSE), req.inst, FALSE)

(***************************************************************************)
(* History records.                                                        *)
(***************************************************************************)
Idle == [op |-> "none", caller |-> NoUser, storeId |-> "", body |-> NoBody,
         fault |-> "none", target |-> 0, status |-> 0, text |-> "", data |-> {},
         sizesBefore |-> {}]

\* a sizes request, its response and the Size rows it found
Handled(op, r, o, before) ==
    [op |-> op, caller |-> r.caller, storeId |-> r.storeId, body |-> r.body,
     fault |-> r.fault, target |-> 0, status |-> o.status, text |-> o.text,
     data |-> o.data, sizesBefore |-> before]

\* a request on one row (target), its response and the rows it matched
HandledOn(op, u, sid, target, o) ==
    [op |-> op, caller |-> u, storeId |-> sid, body |-> NoBody, fault |-> "none",
     target |-> target, status |-> o.status, text |-> o.text, data |-> o.data,
     sizesBefore |-> sizes]

\* who wrote Size `id`, and whether storeId named a Store of theirs at that moment
Written(id, r, S) ==
    [id |-> id, userId |-> r.caller,
     owned |-> \E st \in S : st.id = r.storeId /\ st.userId = r.caller]

Init ==
    /\ stores = {}
    /\ usedStoreIds = {}
    /\ billboards = {}
    /\ categories = {}
    /\ sizes = {}
    /\ nextSizeId = 1
    /\ nextBillboardId = 1
    /\ nextCategoryId = 1
    /\ now = 0
    /\ inflight = {}
    /\ writeLog = {}
    /\ products = {}
    /\ nextProductId = 1
    /\ refused = {}
    /\ form = FormInit
    /\ last = Idle

(***************************************************************************)
(* Actions.                                                                *)
(***************************************************************************)
\* Create of a Store by a signed-in user
CreateStore(u, id) ==
    /\ id \notin usedStoreIds
    /\ stores' = stores \cup {[id |-> id, userId |-> u]}
    /\ usedStoreIds' = usedStoreIds \cup {id}
    /\ last' = Idle
    /\ UNCHANGED <<form, products, nextProductId, refused, billboards, categories,
                   sizes, nextSizeId, nextBillboardId, nextCategoryId, now, inflight,
                   writeLog>>

\* Delete of a Store by its owner; refused while a child row references it
DeleteStore(u, id) ==
    /\ [id |-> id, userId |-> u] \in stores
    /\ ~\E b \in billboards : b.storeId = id
    /\ ~\E c \in categories : c.storeId = id
    /\ ~\E z \in sizes : z.storeId = id
    /\ stores' = stores \ {[id |-> id, userId |-> u]}
    /\ last' = Idle
    /\ UNCHANGED <<form, products, nextProductId, refused, usedStoreIds, billboards,
                   categories, sizes, nextSizeId, nextBillboardId, nextCategoryId, now,
                   inflight, writeLog>>

\* one POST request handled from start to end
POST(r) ==
    LET h == PostHandler(r, stores, sizes, nextSizeId, now)
        created == h.sizes # sizes
    IN /\ last = Idle
       /\ created => nextSizeId <= MaxSizes
       /\ sizes' = h.sizes
       /\ now' = IF created THEN now + 1 ELSE now
       /\ nextSizeId' = IF created THEN nextSizeId + 1 ELSE nextSizeId
       /\ writeLog' = IF created THEN writeLog \cup {Written(nextSizeId, r, stores)}
                      ELSE writeLog
       /\ last' = Handled("POST", r, h.out, sizes)
       /\ UNCHANGED <<form, products, nextProductId, refused, stores, usedStoreIds,
                      billboards, categories, nextBillboardId, nextCategoryId,
                      inflight>>

\* one GET request handled from start to end
GET(r) ==
    /\ last = Idle
    /\ last' = Handled("GET", r, GetHandler(r, sizes), sizes)
    /\ UNCHANGED <<form, products, nextProductId, refused, stores, usedStoreIds,
                   billboards, categories, sizes, nextSizeId, nextBillboardId,
                   nextCategoryId, now, inflight, writeLog>>

\* the response has been delivered: the next request may be issued
Forget ==
    /\ last # Idle
    /\ last' = Idle
    /\ UNCHANGED <<form, products, nextProductId, refused, stores, usedStoreIds,
                   billboards, categories, sizes, nextSizeId, nextBillboardId,
                   nextCategoryId, now, inflight, writeLog>>

(***************************************************************************)
(* The POST handler as it runs: it is suspended at each await, and other   *)
(* requests run between its ownership query and its insert.                *)
(***************************************************************************)
\* from the start of the handler to the answer of the ownership query
PostBegin(r) ==
    LET g == PostGuard(r, stores)
    IN /\ Cardinality(inflight) < MaxInflight
       /\ r \notin inflight
       /\ IF g.kind = "proceed"
          THEN /\ inflight' = inflight \cup {r}
               /\ last' = Idle
          ELSE /\ inflight' = inflight
               /\ last' = Handled("POST", r, TryCatch(g), sizes)
       /\ UNCHANGED <<form, products, nextProductId, refused, stores, usedStoreIds,
                      billboards, categories, sizes, nextSizeId, nextBillboardId,
                      nextCategoryId, now, writeLog>>

\* from the insert to the response
PostFinish(r) ==
    LET c == PostCreate(r, sizes, nextSizeId, now)
        created == c.sizes # sizes
    IN /\ r \in inflight
       /\ nextSizeId <= MaxSizes
       /\ inflight' = inflight \ {r}
       /\ sizes' = c.sizes
       /\ now' = IF created THEN now + 1 ELSE now
       /\ nextSizeId' = IF created THEN nextSizeId + 1 ELSE nextSizeId
       /\ writeLog' = IF created THEN writeLog \cup {Written(nextSizeId, r, stores)}
                      ELSE writeLog
       /\ last' = Handled("POST", r, TryCatch(c.out), sizes)
       /\ UNCHANGED <<form, products, nextProductId, refused, stores, usedStoreIds,
                      billboards, categories, nextBillboardId, nextCategoryId>>

(***************************************************************************)
(* Billboards and categories.                                              *)
(***************************************************************************)
BillboardIds == 1..MaxBillboards

\* Create of a Billboard: ownership guard, then the insert
CreateBillboard(u, sid) ==
    /\ nextBillboardId <= MaxBillboards
    /\ StoreFindFirst(stores, sid, u) # {}
    /\ billboards' = billboards \cup {[id |-> nextBillboardId, storeId |-> sid]}
    /\ nextBillboardId' = nextBillboardId + 1
    /\ last' = Idle
    /\ UNCHANGED <<form, products, nextProductId, refused, stores, usedStoreIds,
                   categories, sizes, nextSizeId, nextCategoryId, now, inflight,
                   writeLog>>

\* Create of a Category: required fields present (billboardId among them),
\* ownership guard, then the insert; nothing looks the Billboard up
CreateCategory(u, sid, bid) ==
    /\ nextCategoryId <= MaxCategories
    /\ StoreFindFirst(stores, sid, u) # {}
    /\ categories' = categories
                      \cup {[id |-> nextCategoryId, storeId |-> sid, billboardId |-> bid]}
    /\ nextCategoryId' = nextCategoryId + 1
    /\ last' = Idle
    /\ UNCHANGED <<form, products, nextProductId, refused, stores, usedStoreIds,
                   billboards, sizes, nextSizeId, nextBillboardId, now, inflight,
                   writeLog>>

\* Delete of a Category: ownership guard, then the delete
DeleteCategory(u, sid, cid) ==
    /\ StoreFindFirst(stores, sid, u) # {}
    /\ \E c \in categories : c.id = cid
    /\ categories' = {c \in categories : c.id # cid}
    /\ last' = Idle
    /\ UNCHANGED <<form, products, nextProductId, refused, stores, usedStoreIds,
                   billboards, sizes, nextSizeId, nextBillboardId, nextCategoryId, now,
                   inflight, writeLog>>

\* the delete of Billboard rows with the relation's Restrict action: it fails
\* while a Category row references a row to be deleted
BillboardDelete(B, C, bid) ==
    LET hit == {b \in B : b.id = bid}
    IN IF \E b \in hit : \E c \in C : c.billboardId = b.id
       THEN [out |-> Throw, billboards |-> B]
       ELSE [out |-> Json(hit), billboards |-> B \ hit]

\* Delete of a Billboard: ownership guard, then the delete; a failure of the
\* delete is reported as the generic internal error
DeleteBillboard(u, sid, bid) ==
    LET hit == {b \in billboards : b.id = bid}
        d == IF u = NoUser THEN [out |-> Respond(401, "Unauthenticated"), billboards |-> billboards]
             ELSE IF StoreFindFirst(stores, sid, u) = {}
             THEN [out |-> Respond(403, "Unauthorized"), billboards |-> billboards]
             ELSE BillboardDelete(billboards, categories, bid)
        o == TryCatch(d.out)
    IN /\ billboards' = d.billboards
       /\ last' = HandledOn("DELETE_BILLBOARD", u, sid, bid, [o EXCEPT !.data = hit])
       /\ UNCHANGED <<form, products, nextProductId, refused, stores, usedStoreIds,
                      categories, sizes, nextSizeId, nextBillboardId, nextCategoryId,
                      now, inflight, writeLog>>

(***************************************************************************)
(* Products and the delete of a Size.                                      *)
(***************************************************************************)
SizeIds == 1..MaxSizes
ProductIds == 1..MaxProducts

\* Create of a Product that uses a Size: ownership guard, then the insert;
\* nothing looks the Size up
CreateProduct(u, sid, zid) ==
    /\ nextProductId <= MaxProducts
    /\ StoreFindFirst(stores, sid, u) # {}
    /\ products' = products \cup {[id |-> nextProductId, storeId |-> sid, sizeId |-> zid]}
    /\ nextProductId' = nextProductId + 1
    /\ last' = Idle
    /\ UNCHANGED <<form, stores, usedStoreIds, billboards, categories, sizes,
                   nextSizeId, nextBillboardId, nextCategoryId, now, inflight, refused,
                   writeLog>>

\* Update of a Product: ownership guard, then the row is given another Size
UpdateProduct(u, sid, pid, zid) ==
    /\ StoreFindFirst(stores, sid, u) # {}
    /\ \E p \in products : p.id = pid /\ p.sizeId # zid
    /\ products' = {IF p.id = pid THEN [p EXCEPT !.sizeId = zid] ELSE p : p \in products}
    /\ last' = Idle
    /\ UNCHANGED <<form, stores, usedStoreIds, billboards, categories, sizes,
                   nextSizeId, nextBillboardId, nextCategoryId, now, inflight,
                   nextProductId, refused, writeLog>>

\* Delete of a Product: ownership guard, then the delete
DeleteProduct(u, sid, pid) ==
    /\ StoreFindFirst(stores, sid, u) # {}
    /\ \E p \in products : p.id = pid
    /\ products' = {p \in products : p.id # pid}
    /\ last' = Idle
    /\ UNCHANGED <<form, stores, usedStoreIds, billboards, categories, sizes,
                   nextSizeId, nextBillboardId, nextCategoryId, now, inflight,
                   nextProductId, refused, writeLog>>

\* a delete of Size rows that does not look at the Product rows
SizeDeleteUnrestricted(Z, P, zid) ==
    LET hit == {z \in Z : z.id = zid}
    IN [out |-> Json(hit), sizes |-> Z \ hit]

\* the delete of Size rows with the relation's Restrict action: it fails
\* while a Product row references a row to be deleted
SizeDelete(Z, P, zid) ==
    LET hit == {z \in Z : z.id = zid}
    IN IF \E z \in hit : \E p \in P : p.sizeId = z.id
       THEN [out |-> Throw, sizes |-> Z]
       ELSE [out |-> Json(hit), sizes |-> Z \ hit]

\* Delete of a Size: ownership guard, then the delete; a failure of the
\* delete is reported as the generic internal error
DeleteSize(u, sid, zid) ==
    LET hit == {z \in sizes : z.id = zid}
        d == IF u = NoUser THEN [out |-> Respond(401, "Unauthenticated"), sizes |-> sizes]
             ELSE IF StoreFindFirst(stores, sid, u) = {}
             THEN [out |-> Respond(403, "Unauthorized"), sizes |-> sizes]
             ELSE SizeDelete(sizes, products, zid)
        o == TryCatch(d.out)
    IN /\ sizes' = d.sizes
       /\ refused' = IF o.status = 500 THEN refused \cup {zid} ELSE refused
       /\ last' = HandledOn("DELETE_SIZE", u, sid, zid, [o EXCEPT !.data = hit])
       /\ UNCHANGED <<form, stores, usedStoreIds, billboards, categories, nextSizeId,
                      nextBillboardId, nextCategoryId, now, inflight, products,
                      nextProductId, writeLog>>

(***************************************************************************)
(* The size form in the browser.                                           *)
(***************************************************************************)
FormMounted == Len(form.route) = 3

\* "Adicionar novo" on the list, or the edit entry of a row: the form's route is
\* entered; initialData is the Size row found for params.sizeId, if any
OpenForm(zid, data) ==
    /\ ~FormMounted
    /\ form.opened < MaxForms
    /\ zid = "new" => ~data
    /\ form' = [Mount(form, zid, data) EXCEPT !.event = Event("open", NoRequest, NoResponse, form)]
    /\ UNCHANGED <<stores, usedStoreIds, billboards, categories, sizes, nextSizeId,
                   nextBillboardId, nextCategoryId, now, inflight, products,
                   nextProductId, refused, writeLog, last>>

\* the submit button: handleSubmit validates with formSchema and calls onSubmit
\* for valid data only
Submit(data) ==
    LET req == onSubmitRequest(form, data)
    IN /\ FormMounted
       /\ ~form.loading
       /\ NameSchema(data.name)
       /\ ValueSchema(data.value)
       /\ form' = [SetLoading(form, form.inst, TRUE)
                     EXCEPT !.pending = @ \cup {req},
                            !.event = Event("submit", req, NoResponse, form)]
       /\ UNCHANGED <<stores, usedStoreIds, billboards, categories, sizes, nextSizeId,
                      nextBillboardId, nextCategoryId, now, inflight, products,
                      nextProductId, refused, writeLog, last>>

\* the trash button, rendered for existing data only
ClickTrash ==
    /\ FormMounted
    /\ form.initialData
    /\ ~form.loading
    /\ form' = [SetOpenDelete(form, form.inst, TRUE)
                  EXCEPT !.event = Event("trash", NoRequest, NoResponse, form)]
    /\ UNCHANGED <<stores, usedStoreIds, billboards, categories, sizes, nextSizeId,
                   nextBillboardId, nextCategoryId, now, inflight, products,
                   nextProductId, refused, writeLog, last>>

\* AlertModal.onClose
CloseModal ==
    /\ FormMounted
    /\ form.openDelete
    /\ form' = [SetOpenDelete(form, form.inst, FALSE)
                  EXCEPT !.event = Event("close", NoRequest, NoResponse, form)]
    /\ UNCHANGED <<stores, usedStoreIds, billboards, categories, sizes, nextSizeId,
                   nextBillboardId, nextCategoryId, now, inflight, products,
                   nextProductId, refused, writeLog, last>>

\* AlertModal.onConfirm: the modal is given loading and offers no confirmation
\* while it is true
ConfirmDelete ==
    LET req == onDeleteRequest(form)
    IN /\ FormMounted
       /\ form.openDelete
       /\ ~form.loading
       /\ form' = [SetLoading(form, form.inst, TRUE)
                     EXCEPT !.pending = @ \cup {req},
                            !.event = Event("confirm", req, NoResponse, form)]
       /\ UNCHANGED <<stores, usedStoreIds, billboards, categories, sizes, nextSizeId,
                      nextBillboardId, nextCategoryId, now, inflight, products,
                      nextProductId, refused, writeLog, last>>

\* the "Voltar" button: it is enabled also while a request is in flight
Back ==
    /\ FormMounted
    /\ form' = [RouterPush(form, <<form.route[1], "sizes">>)
                  EXCEPT !.event = Event("back", NoRequest, NoResponse, form)]
    /\ UNCHANGED <<stores, usedStoreIds, billboards, categories, sizes, nextSizeId,
                   nextBillboardId, nextCategoryId, now, inflight, products,
                   nextProductId, refused, writeLog, last>>

\* a request in flight settles and the handler that awaited it goes on
Settle(req, status) ==
    LET f == IF req.method = "DELETE" THEN onDeleteSettled(form, req, status)
             ELSE onSubmitSettled(form, req, status)
    IN /\ req \in form.pending
       /\ form' = [f EXCEPT !.pending = @ \ {req},
                            !.event = Event("settle", req, status, form)]
       /\ UNCHANGED <<stores, usedStoreIds, billboards, categories, sizes, nextSizeId,
                      nextBillboardId, nextCategoryId, now, inflight, products,
                      nextProductId, refused, writeLog, last>>

Next ==
    \/ Forget
    \/ \E u \in Users, id \in StoreIds : CreateStore(u, id)
    \/ \E u \in Users, id \in StoreIds : DeleteStore(u, id)
    \/ \E r \in Requests : POST(r)
    \/ \E r \in GetRequests : GET(r)

Spec == Init /\ [][Next]_vars

\* concurrent size creations and store deletions
NextRace ==
    \/ \E u \in Users, id \in StoreIds : CreateStore(u, id)
    \/ \E u \in Users, id \in StoreIds : DeleteStore(u, id)
    \/ \E r \in RaceRequests : PostBegin(r)
    \/ \E r \in RaceRequests : PostFinish(r)

SpecRace == Init /\ [][NextRace]_vars

\* stores, billboards and categories
NextCatalog ==
    \/ \E u \in Users, id \in StoreIds : CreateStore(u, id)
    \/ \E u \in Users, id \in StoreIds : DeleteStore(u, id)
    \/ \E u \in Users, id \in StoreIds : CreateBillboard(u, id)
    \/ \E u \in Users, id \in StoreIds, b \in BillboardIds : CreateCategory(u, id, b)
    \/ \E u \in Users, id \in StoreIds, c \in 1..MaxCategories : DeleteCategory(u, id, c)
    \/ \E u \in Callers, id \in StoreIds, b \in BillboardIds : DeleteBillboard(u, id, b)

SpecCatalog == Init /\ [][NextCatalog]_vars

\* sizes, the products that use them, and the delete of a size; the products
\* are those of one store
NextVariants ==
    \/ Forget
    \/ \E u \in Users : CreateStore(u, "s1")
    \/ \E r \in RaceRequests : POST(r)
    \/ \E u \in Users, z \in SizeIds : CreateProduct(u, "s1", z)
    \/ \E u \in Users, p \in ProductIds, z \in SizeIds : UpdateProduct(u, "s1", p, z)
    \/ \E u \in Users, p \in ProductIds : DeleteProduct(u, "s1", p)
    \/ \E u \in Callers, id \in StoreIds, z \in SizeIds : DeleteSize(u, id, z)

SpecVariants == Init /\ [][NextVariants]_vars

\* size creations in a database that holds billboards and categories
NextFrame ==
    \/ Forget
    \/ \E u \in Users, id \in StoreIds : CreateStore(u, id)
    \/ \E u \in Users, id \in StoreIds : CreateBillboard(u, id)
    \/ \E u \in Users, id \in StoreIds, b \in BillboardIds : CreateCategory(u, id, b)
    \/ \E r \in RaceRequests : POST(r)

SpecFrame == Init /\ [][NextFrame]_vars

\* the size form and its requests
NextForm ==
    \/ \E zid \in RouteSizeIds, data \in BOOLEAN : OpenForm(zid, data)
    \/ \E data \in FormInputs : Submit(data)
    \/ ClickTrash
    \/ CloseModal
    \/ ConfirmDelete
    \/ Back
    \/ \E req \in form.pending, status \in Settlements : Settle(req, status)

SpecForm == Init /\ [][NextForm]_vars

(***************************************************************************)
(* Properties.                                                             *)
(***************************************************************************)
StoreExists(sid) == \E st \in stores : st.id = sid
ForeignStore(sid, u) == \E st \in stores : st.id = sid /\ st.userId # u
OwnStore(sid, u) == \E st \in stores : st.id = sid /\ st.userId = u

\* the field is not given, or is the empty string
MissingOrEmpty(v) == v.t = "absent" \/ (v.t = "str" /\ v.s = <<>>)

\* the field is a non-empty string
NonEmptyString(v) == v.t = "str" /\ v.s # <<>>

\* the body is a JSON object that lacks a non-empty name or a non-empty value
LacksRequiredField(b) ==
    b.kind = "object" /\ (MissingOrEmpty(b.name) \/ MissingOrEmpty(b.value))

\* the body is a JSON object with a non-empty name and a non-empty value
HasRequiredFields(b) ==
    b.kind = "object" /\ NonEmptyString(b.name) /\ NonEmptyString(b.value)

\* C1 as stated: every POST whose body lacks a non-empty name or a non-empty
\* value is answered 400 and leaves the Size rows as they were.
C1_MissingFieldAlways400 ==
    (last.op = "POST" /\ LacksRequiredField(last.body))
        => (last.status = 400 /\ sizes = last.sizesBefore)

\* C1 amended: a POST whose body is a JSON object lacking a non-empty name or a
\* non-empty value leaves the Size rows as they were, whoever sends it; it is
\* answered 400 when auth() returned a user, and 401 when it returned none.
C1_MissingFieldRejected ==
    (last.op = "POST" /\ LacksRequiredField(last.body))
        => /\ sizes = last.sizesBefore
           /\ (last.caller \in Users /\ last.fault # "auth")
                 => (last.status = 400
                     /\ last.text \in {"name is required!", "value is required!"})
           /\ (last.caller = NoUser /\ last.fault # "auth") => last.status = 401

\* C1 witness: the owner of a store that already holds a Size row posts a body
\* with a missing field and is answered 400.
C1_Witness ==
    /\ last.op = "POST"
    /\ LacksRequiredField(last.body)
    /\ OwnStore(last.storeId, last.caller)
    /\ last.status = 400
    /\ sizes # {}

\* C2: a POST by an authenticated user with a non-empty name and value, to a
\* storeId naming a Store of another user, is answered 403 and creates no Size
\* row, whatever the database holds (the identity lookup and the ownership
\* query having answered).
C2_ForeignStoreForbidden ==
    (/\ last.op = "POST"
     /\ last.caller \in Users
     /\ last.fault \notin {"auth", "find"}
     /\ HasRequiredFields(last.body)
     /\ ForeignStore(last.storeId, last.caller))
        => (last.status = 403 /\ last.text = "Unauthorized" /\ sizes = last.sizesBefore)

\* C2 witness: a 403 for a store of another user, in a database that holds rows.
C2_Witness ==
    /\ last.op = "POST"
    /\ last.caller \in Users
    /\ HasRequiredFields(last.body)
    /\ ForeignStore(last.storeId, last.caller)
    /\ last.status = 403
    /\ sizes # {}

\* C3 as stated: every POST made without an authenticated user is answered 401
\* and persists nothing, whatever its body (an unparsable one included) and
\* whatever the storeId.
C3_Unauthenticated401 ==
    (last.op = "POST" /\ last.caller = NoUser /\ last.fault = "none")
        => (last.status = 401 /\ sizes = last.sizesBefore)

\* the latest request, sent to another storeId
Sibling(sid) ==
    [caller |-> last.caller, storeId |-> sid, body |-> last.body, fault |-> last.fault]

\* C4: a POST to a storeId that names no Store and the same POST (same caller,
\* same body) to a storeId that names a Store of another user get the same
\* response and neither changes the database; with an authenticated caller and
\* both fields present that response is 403 "Unauthorized".
C4_NoExistenceLeak ==
    (last.op = "POST" /\ last.storeId \in StoreIds)
        => \A sid \in StoreIds :
             (\/ ~StoreExists(last.storeId) /\ ForeignStore(sid, last.caller)
              \/ ForeignStore(last.storeId, last.caller) /\ ~StoreExists(sid))
                => LET h == PostHandler(Sibling(sid), stores, sizes, nextSizeId, now)
                   IN /\ h.out.status = last.status
                      /\ h.out.text = last.text
                      /\ h.out.data = last.data
                      /\ h.sizes = sizes
                      /\ sizes = last.sizesBefore
                      /\ (/\ last.caller \in Users
                          /\ last.fault \notin {"auth", "find"}
                          /\ HasRequiredFields(last.body))
                            => (last.status = 403 /\ last.text = "Unauthorized")

\* C4 witness: a 403 for a storeId that names no Store, while another storeId
\* names a Store of another user.
C4_Witness ==
    /\ last.op = "POST"
    /\ last.caller \in Users
    /\ last.storeId \in StoreIds
    /\ ~StoreExists(last.storeId)
    /\ \E sid \in StoreIds : ForeignStore(sid, last.caller)
    /\ last.status = 403

\* C5 as stated: every Size row's storeId references an existing Store, and
\* that Store was owned by the creating user at the moment the row was written.
C5_SizeReferencesOwnedStore ==
    /\ \A z \in sizes : StoreExists(z.storeId)
    /\ \A w \in writeLog : w.owned

\* C6 as stated: a delete of a Billboard that a Category references fails and
\* leaves the Billboard in place; with no Category referencing it the delete
\* succeeds; and no Category references a missing Billboard.
C6_BillboardIntegrity ==
    /\ (/\ last.op = "DELETE_BILLBOARD"
        /\ last.data # {}
        /\ last.status \notin {401, 403}
        /\ \E c \in categories : c.billboardId = last.target)
          => (last.status # 200 /\ last.data \subseteq billboards)
    /\ (/\ last.op = "DELETE_BILLBOARD"
        /\ last.data # {}
        /\ last.status \notin {401, 403}
        /\ ~\E c \in categories : c.billboardId = last.target)
          => (last.status = 200 /\ last.data \cap billboards = {})
    /\ \A c \in categories : \E b \in billboards : b.id = c.billboardId

\* the first two parts of C6 alone
BillboardDeleteRestricted ==
    /\ (/\ last.op = "DELETE_BILLBOARD"
        /\ last.data # {}
        /\ last.status \notin {401, 403}
        /\ \E c \in categories : c.billboardId = last.target)
          => (last.status # 200 /\ last.data \subseteq billboards)
    /\ (/\ last.op = "DELETE_BILLBOARD"
        /\ last.data # {}
        /\ last.status \notin {401, 403}
        /\ ~\E c \in categories : c.billboardId = last.target)
          => (last.status = 200 /\ last.data \cap billboards = {})

\* C7: GET with a non-empty storeId is answered 200 with exactly the Size rows
\* of that store, for any caller, and leaves the database unchanged (the query
\* having answered).
C7_GetReturnsStoreSizes ==
    (last.op = "GET" /\ last.storeId # "" /\ last.fault = "none")
        => /\ last.status = 200
           /\ last.data = {z \in sizes : z.storeId = last.storeId}
           /\ sizes = last.sizesBefore

\* C7 witness: an unauthenticated GET that returns rows while another store has
\* rows too.
C7_Witness ==
    /\ last.op = "GET"
    /\ last.caller = NoUser
    /\ last.status = 200
    /\ last.data # {}
    /\ last.data # sizes

\* C8: after a successful POST, reading the store's sizes returns exactly one
\* entity with the id the POST returned; its name and value are the submitted
\* ones, its storeId is the path parameter and createdAt <= updatedAt.
C8_RoundTrip ==
    (last.op = "POST" /\ last.status = 200)
        => LET read == GetHandler([caller |-> NoUser, storeId |-> last.storeId,
                                   body |-> NoBody, fault |-> "none"], sizes)
           IN /\ Cardinality(last.data) = 1
              /\ read.status = 200
              /\ \A created \in last.data :
                    /\ Cardinality({e \in read.data : e.id = created.id}) = 1
                    /\ \A e \in read.data :
                          e.id = created.id
                            => /\ e.name = last.body.name.s
                               /\ e.value = last.body.value.s
                               /\ e.storeId = last.storeId
                               /\ e.createdAt <= e.updatedAt

\* C8 witness: a successful POST into a store that already holds a row.
C8_Witness ==
    /\ last.op = "POST"
    /\ last.status = 200
    /\ \E z \in last.sizesBefore : z.storeId = last.storeId

\* C9 as stated: a POST whose fields are present but violate the form's schema
\* is answered 400 and persists nothing, so no Size row violates the schema.
\* (Stated for the owner of the store, where nothing else rejects the request.)
C9_SchemaEnforced ==
    /\ (/\ last.op = "POST"
        /\ last.fault = "none"
        /\ OwnStore(last.storeId, last.caller)
        /\ HasRequiredFields(last.body)
        /\ ~(NameSchema(last.body.name.s) /\ ValueSchema(last.body.value.s)))
          => (last.status = 400 /\ sizes = last.sizesBefore)
    /\ \A z \in sizes : NameSchema(z.name) /\ ValueSchema(z.value)

\* the field is given and is neither empty nor a string: a non-zero number
NonStringField(v) == v.t = "num" /\ v.n # 0

\* the POST handler reaches its ownership query
ReachesFind ==
    /\ last.fault # "auth"
    /\ last.caller \in Users
    /\ last.body.kind = "object"
    /\ NonEmptyString(last.body.name) \/ NonStringField(last.body.name)
    /\ NonEmptyString(last.body.value) \/ NonStringField(last.body.value)
    /\ last.storeId # ""

\* something throws inside the latest handler
FailureInside ==
    \/ /\ last.op = "POST"
       /\ \/ last.fault = "auth"
          \/ last.body.kind \in {"unparsable", "null"}
          \/ ReachesFind /\ last.fault = "find"
          \/ /\ ReachesFind
             /\ OwnStore(last.storeId, last.caller)
             /\ last.fault # "find"
             /\ \/ last.fault = "create"
                \/ NonStringField(last.body.name)
                \/ NonStringField(last.body.value)
    \/ /\ last.op = "GET"
       /\ last.storeId # ""
       /\ last.fault = "find"

\* C10: a failure inside the POST or GET handler is answered 500 "Internal
\* error"; the handler always answers with a status and never lets the
\* exception out; a POST that does not answer 200 leaves no Size row behind.
C10_FailuresAnswered500 ==
    last.op \in {"POST", "GET"}
        => /\ last.status \in {200, 400, 401, 403, 500}
           /\ FailureInside
                 => (last.status = 500 /\ last.text = "Internal error"
                     /\ sizes = last.sizesBefore)
           /\ (last.op = "POST" /\ last.status # 200) => sizes = last.sizesBefore

\* C10 witness: the insert of an owner's valid request throws and is answered 500.
C10_Witness ==
    /\ last.op = "POST"
    /\ last.fault = "create"
    /\ OwnStore(last.storeId, last.caller)
    /\ last.status = 500
    /\ last.text = "Internal error"

\* the field fails `if (!field)`: not given, the empty string, or the number 0
FieldMissing(v) == MissingOrEmpty(v) \/ (v.t = "num" /\ v.n = 0)

\* the latest POST passed the userId, name, value and storeId checks
PassedEarlierChecks ==
    /\ last.caller \in Users
    /\ ~FieldMissing(last.body.name)
    /\ ~FieldMissing(last.body.value)
    /\ last.storeId # ""

\* C12: with a parsed JSON object as body the POST handler reports the first
\* failing check of the sequence userId (401), name (400), value (400),
\* storeId (400), ownership (403): a missing field against a store of another
\* user is answered 400; the ownership query runs only after the four earlier
\* checks pass, and the insert only after the ownership check passes too.
C12_CheckPrecedence ==
    (last.op = "POST" /\ last.body.kind = "object" /\ last.fault # "auth")
        => /\ last.caller = NoUser
                => (last.status = 401 /\ last.text = "Unauthenticated")
           /\ (last.caller \in Users /\ FieldMissing(last.body.name))
                => (last.status = 400 /\ last.text = "name is required!")
           /\ (/\ last.caller \in Users
               /\ ~FieldMissing(last.body.name)
               /\ FieldMissing(last.body.value))
                => (last.status = 400 /\ last.text = "value is required!")
           /\ (/\ last.caller \in Users
               /\ ~FieldMissing(last.body.name)
               /\ ~FieldMissing(last.body.value)
               /\ last.storeId = "")
                => (last.status = 400 /\ last.text = "storeId is required!")
           /\ (PassedEarlierChecks /\ last.fault # "find"
               /\ ~OwnStore(last.storeId, last.caller))
                => (last.status = 403 /\ last.text = "Unauthorized")
           \* the ownership query ran: it answered 403, it threw, or the insert ran
           /\ last.status \in {403, 500, 200} => PassedEarlierChecks
           \* the insert ran: it answered 200 or it threw
           /\ (last.status = 200 \/ (last.status = 500 /\ last.fault # "find"))
                => (PassedEarlierChecks /\ OwnStore(last.storeId, last.caller))
           /\ sizes # last.sizesBefore
                => (PassedEarlierChecks /\ OwnStore(last.storeId, last.caller))

\* C12 witness: a signed-in user posts a body with a missing field to a store
\* of another user and is answered 400.
C12_Witness ==
    /\ last.op = "POST"
    /\ last.caller \in Users
    /\ LacksRequiredField(last.body)
    /\ ForeignStore(last.storeId, last.caller)
    /\ last.status = 400

\* the Size row the latest delete was aimed at is referenced by a Product
TargetReferenced == \E p \in products : p.sizeId = last.target

\* the latest request is a delete of an existing Size by the owner of the store
OwnerDeletesSize ==
    /\ last.op = "DELETE_SIZE"
    /\ OwnStore(last.storeId, last.caller)
    /\ last.data # {}

SuccessfulPost == last'.op = "POST" /\ last'.status = 200

\* C15: every POST answered 200 adds exactly one Size row, whose identifier no
\* existing row holds, and changes nothing else: the existing Size rows and the
\* Store, Billboard and Category rows stay as they were. It does so also when a
\* row with the same storeId, name and value exists: create is not idempotent.
C15_PostAddsOneRowOnly ==
    [][SuccessfulPost
          => /\ \E z \in sizes' :
                  /\ z \notin sizes
                  /\ \A y \in sizes : y.id # z.id
                  /\ sizes' = sizes \cup {z}
                  /\ z.storeId = last'.storeId
             /\ Cardinality(sizes') = Cardinality(sizes) + 1
             /\ stores' = stores
             /\ billboards' = billboards
             /\ categories' = categories]_vars

\* C15 witness: after a POST answered 200 two Size rows with distinct
\* identifiers hold the same storeId, name and value, next to a Billboard and a
\* Category row.
C15_Witness ==
    /\ last.op = "POST"
    /\ last.status = 200
    /\ billboards # {}
    /\ categories # {}
    /\ \E y \in sizes, z \in sizes :
          /\ y.id # z.id
          /\ y.storeId = z.storeId
          /\ y.name = z.name
          /\ y.value = z.value
          /\ z \in last.data

\* the latest step settled a request of the form
Settled == form.event.kind = "settle"

\* the request of the latest step came back with a 2xx status
SettledOk == form.event.status = "200"

\* the success toast of the operation the request of the latest step stands for
SuccessToast ==
    CASE form.event.req.method = "POST" -> "Tamanho criado com sucesso!"
      [] form.event.req.method = "PATCH" -> "Tamanho atualizado com sucesso."
      [] form.event.req.method = "DELETE" -> "Tamanho apagado com sucesso."
      [] OTHER -> "?"

SuccessToasts ==
    {"Tamanho criado com sucesso!", "Tamanho atualizado com sucesso.",
     "Tamanho apagado com sucesso."}

\* C13: a submit issues PATCH /api/{storeId}/sizes/{sizeId} when the form was
\* opened with existing data and POST /api/{storeId}/sizes otherwise; when a
\* request of the form (create, update, delete) settles with success the
\* browser is sent to the sizes list and the operation's success toast is
\* shown; when it settles with a failure an error toast is shown and the route
\* and the mounted form are the ones of before.
C13_MethodAndNavigation ==
    /\ form.event.kind = "submit"
          => IF form.initialData
             THEN /\ form.event.req.method = "PATCH"
                  /\ form.event.req.url = <<"api", form.route[1], "sizes", form.route[3]>>
             ELSE /\ form.event.req.method = "POST"
                  /\ form.event.req.url = <<"api", form.route[1], "sizes">>
    /\ (Settled /\ SettledOk)
          => /\ form.route = <<form.event.routeBefore[1], "sizes">>
             /\ ~FormMounted
             /\ form.toast = SuccessToast
    /\ (Settled /\ ~SettledOk)
          => /\ form.route = form.event.routeBefore
             /\ form.inst = form.event.instBefore
             /\ form.toast # ""
             /\ form.toast \notin SuccessToasts

\* C13 witness: a form opened with existing data was submitted, the PATCH came
\* back with a failure, and the form is still shown with the error toast.
C13_Witness ==
    /\ Settled
    /\ ~SettledOk
    /\ form.event.req.method = "PATCH"
    /\ form.event.req.inst = form.inst
    /\ FormMounted
    /\ form.initialData
    /\ form.toast = "Algo correu mal ao atualizar o tamanho!"

\* a request issued by the mounted form is in flight
OwnRequestInFlight == \E req \in form.pending : req.inst = form.inst

\* C14: while a request issued by the mounted form is in flight loading is
\* true, and loading is true only then; once a request of the mounted form has
\* settled, with success or with a failure, loading is false and, for a delete,
\* openDelete is false.
C14_LoadingFollowsRequest ==
    /\ FormMounted => (form.loading <=> OwnRequestInFlight)
    /\ ~FormMounted => ~form.loading
    /\ (Settled /\ FormMounted /\ form.event.req.inst = form.inst)
          => /\ ~form.loading
             /\ form.event.req.method = "DELETE" => ~form.openDelete

\* C14 witness: the delete of the mounted form came back with a failure; the
\* form is still shown, not loading, with the modal closed.
C14_Witness ==
    /\ Settled
    /\ ~SettledOk
    /\ form.event.req.method = "DELETE"
    /\ form.event.req.inst = form.inst
    /\ FormMounted
    /\ ~form.loading
    /\ ~form.openDelete

====
